---- MODULE Spec2Model ----
(***************************************************************************)
(* The missing-sailor search game of src/module/bayes-extended.py: the     *)
(* Search object (priors p1..p3, search effectiveness sep1..sep3, the      *)
(* sailor's actual area and cell) and the round loop of main().            *)
(*                                                                         *)
(* Python floats are modelled as exact rationals <<numerator, denominator>>*)
(* in lowest terms, so the arithmetic of revise_target_probs is the        *)
(* arithmetic of the reals; random() is a real of [0, 1).                  *)
(*                                                                         *)
(* pc is the position of main(): "choice" is the input() of line 319,      *)
(* "main" is the entry of main() (line 280, no Search object yet),         *)
(* "searched" is line 341 (a choose helper has returned), "revised" is     *)
(* line 343 (revise_target_probs has returned), "found" is the main() of   *)
(* line 367, "exhausted" the main() of line 372, "restart" the main() of   *)
(* chooseSeven, "exited" the exit() of chooseZero and "ZeroDivisionError"  *)
(* the exception raised inside revise_target_probs.  The locals choice and *)
(* holdMyTuple are Unbound once a round is complete (their values are dead *)
(* at the next input()); after a rejected input choice holds that input.   *)
(***************************************************************************)
EXTENDS Integers, Sequences, FiniteSets, TLC

\* Side of a search area in cells (SA*_CORNERS span 50 x 50 in the source).
GridSide == 2

\* The largest round limit the model draws (setHurricaneArrival draws 3..8).
MaxSearchLimit == 3

\* int(uniform(3, 9)): the least and the least-not-reached round limit.
LimitLow == 3
LimitHigh == 9

\* num_search_areas of main()
NumSearchAreas == 3

VARIABLES pc, p1, p2, p3, sep1, sep2, sep3, area_actual, sailor_actual,
          search_num, search_limit, choice, holdMyTuple

vars == <<pc, p1, p2, p3, sep1, sep2, sep3, area_actual, sailor_actual,
          search_num, search_limit, choice, holdMyTuple>>

----------------------------------------------------------------------------
(* Exact rational arithmetic standing for Python's float arithmetic.       *)

RECURSIVE GCD(_, _)
GCD(a, b) == IF b = 0 THEN a ELSE GCD(b, a % b)

Abs(a) == IF a < 0 THEN -a ELSE a

\* the rational n/d in lowest terms with a positive denominator
Rat(n, d) ==
    LET g == GCD(Abs(n), Abs(d))
        s == IF d < 0 THEN -1 ELSE 1
    IN  <<s * (n \div g), s * (d \div g)>>

Zero == <<0, 1>>
One == <<1, 1>>

RAdd(a, b) ==
    LET g == GCD(a[2], b[2])
    IN  Rat(a[1] * (b[2] \div g) + b[1] * (a[2] \div g), (a[2] \div g) * b[2])

RSub(a, b) == RAdd(a, <<-b[1], b[2]>>)

\* the product of two rationals in lowest terms, reduced crosswise
RMul(a, b) ==
    LET g1 == GCD(Abs(a[1]), b[2])
        g2 == GCD(Abs(b[1]), a[2])
    IN  <<(a[1] \div g1) * (b[1] \div g2), (a[2] \div g2) * (b[2] \div g1)>>

\* a / b for b # 0
RDiv(a, b) == RMul(a, IF b[1] < 0 THEN <<-b[2], -b[1]>> ELSE <<b[2], b[1]>>)

RLeq(a, b) == a[1] * b[2] <= b[1] * a[2]

\* int(x) for a rational x >= 0
Floor(x) == x[1] \div x[2]

----------------------------------------------------------------------------
(* The data of a session.                                                  *)

\* the priors set by Search.__init__
InitP1 == <<1, 5>>
InitP2 == <<1, 2>>
InitP3 == <<3, 10>>

\* the band of uniform(0.2, 0.9)
SepLow == <<1, 5>>
SepHigh == <<9, 10>>

\* the values of uniform(0.2, 0.9) the model draws
EffValues == {<<1, 3>>, <<2, 3>>}

\* list(product(local_x_range, local_y_range)): x-major, cells <<x, y>>
AllCoords ==
    [i \in 1..(GridSide * GridSide) |->
        <<(i - 1) \div GridSide, (i - 1) % GridSide>>]

Cells == {AllCoords[i] : i \in 1..Len(AllCoords)}

Reverse(s) == [i \in 1..Len(s) |-> s[Len(s) + 1 - i]]

Rotate(s, k) == [i \in 1..Len(s) |-> s[((i - 1 + k) % Len(s)) + 1]]

\* the orders shuffle(coords) leaves the list in, as far as the model draws them
ShuffleOrders == {AllCoords, Reverse(AllCoords)}

SeqToSet(s) == {s[i] : i \in 1..Len(s)}

Unbound == <<>>

NotFound == "Not Found"

FoundIn(area_num) ==
    CASE area_num = 1 -> "Found in Area 1"
      [] area_num = 2 -> "Found in Area 2"
      [] area_num = 3 -> "Found in Area 3"

\* the areas the two teams are sent to by each search choice of the menu
TeamAreas(c) ==
    CASE c = "1" -> <<1, 1>>
      [] c = "2" -> <<2, 2>>
      [] c = "3" -> <<3, 3>>
      [] c = "4" -> <<1, 2>>
      [] c = "5" -> <<1, 3>>
      [] c = "6" -> <<2, 3>>

\* the keys of choiceDict
ChoiceKeys == {"0", "1", "2", "3", "4", "5", "6", "7"}

\* an input that is no key of choiceDict
InvalidInputs == {"8"}

----------------------------------------------------------------------------
(* Search.sailor_final_location, setHurricaneArrival,                      *)
(* Search.calc_search_effectiveness: the values the random draws can take. *)

\* random.choice(shape[1], 1), random.choice(shape[0], 1)
SailorCells == (0..(GridSide - 1)) \X (0..(GridSide - 1))

\* a draw of the area that can reach the upper limit of triangular
SailorAreas_reaches_upper == 1..(NumSearchAreas + 1)

\* int(triangular(1, num_search_areas + 1))
SailorAreas == 1..NumSearchAreas

\* int(uniform(3, 9)), as far as the model draws it
setHurricaneArrival == {l \in LimitLow..(LimitHigh - 1) : l <= MaxSearchLimit}

\* self.sep1, self.sep2, self.sep3 = uniform(0.2, 0.9) each
calc_search_effectiveness ==
    /\ sep1' \in EffValues
    /\ sep2' \in EffValues
    /\ sep3' \in EffValues

----------------------------------------------------------------------------
(* Search.conduct_search and Search.revise_target_probs.                   *)

\* a slice that stops one cell short
Searched_stops_short(order, effectiveness_prob) ==
    SubSeq(order, 1, Floor(RMul(<<Len(order), 1>>, effectiveness_prob)) - 1)

\* a slice that rounds the number of searched cells up
Searched_rounds_up(order, effectiveness_prob) ==
    LET x == RMul(<<Len(order), 1>>, effectiveness_prob)
    IN  SubSeq(order, 1, IF x[2] = 1 THEN x[1] ELSE Floor(x) + 1)

\* coords[:int(len(coords) * effectiveness_prob)] of the shuffled list
Searched(order, effectiveness_prob) ==
    SubSeq(order, 1, Floor(RMul(<<Len(order), 1>>, effectiveness_prob)))

\* a conduct_search whose membership test never matches (a list compared
\* with the tuples of coords)
conduct_search_never_matches(area_num, order, effectiveness_prob) ==
    <<NotFound, Searched(order, effectiveness_prob)>>

\* a conduct_search that forgets to compare area_num with area_actual
conduct_search_ignores_area(area_num, order, effectiveness_prob) ==
    LET coords == Searched(order, effectiveness_prob)
    IN  IF sailor_actual \in SeqToSet(coords)
        THEN <<FoundIn(area_num), coords>>
        ELSE <<NotFound, coords>>

\* the (result, coords) pair conduct_search returns when shuffle leaves `order`
conduct_search(area_num, order, effectiveness_prob) ==
    LET coords == Searched(order, effectiveness_prob)
    IN  IF area_num = area_actual /\ sailor_actual \in SeqToSet(coords)
        THEN <<FoundIn(area_num), coords>>
        ELSE <<NotFound, coords>>

\* a denom that adds sep where it should subtract it
Denom_adds_sep(q1, q2, q3, e1, e2, e3) ==
    RAdd(RAdd(RMul(q1, RAdd(One, e1)), RMul(q2, RAdd(One, e2))),
         RMul(q3, RAdd(One, e3)))

\* a denom that leaves the third area's miss probability out
Denom_omits_sep3(q1, q2, q3, e1, e2, e3) ==
    RAdd(RAdd(RMul(q1, RSub(One, e1)), RMul(q2, RSub(One, e2))), q3)

\* denom of revise_target_probs
Denom(q1, q2, q3, e1, e2, e3) ==
    RAdd(RAdd(RMul(q1, RSub(One, e1)), RMul(q2, RSub(One, e2))),
         RMul(q3, RSub(One, e3)))

\* a posterior weighted by sep instead of 1 - sep
Posterior_uses_sep(q, e, denom) == RDiv(RMul(q, e), denom)

\* a posterior written without its parentheses: p * 1 - sep / denom
Posterior_without_parentheses(q, e, denom) == RSub(q, RDiv(e, denom))

\* (self.p * (1 - self.sep)) / denom
Posterior(q, e, denom) == RDiv(RMul(q, RSub(One, e)), denom)

\* len(set(coords_1 + coords_2)) / len(sa) ** 2
ObservedSep(coords_1, coords_2) ==
    Rat(Cardinality(SeqToSet(coords_1 \o coords_2)), GridSide * GridSide)

\* a test that looks at the first team's result only
BothNotFound_first_only(t) == t[1] = NotFound

\* holdMyTuple[0] == "Not Found" and holdMyTuple[2] == "Not Found"
BothNotFound(t) == t[1] = NotFound /\ t[3] = NotFound

----------------------------------------------------------------------------
(* main(): the set up of a game, then one action per branch of the loop.   *)

Init ==
    /\ pc = "main"
    /\ p1 = Unbound /\ p2 = Unbound /\ p3 = Unbound
    /\ sep1 = Unbound /\ sep2 = Unbound /\ sep3 = Unbound
    /\ sailor_actual = Unbound
    /\ area_actual = 0
    /\ search_num = 0
    /\ search_limit = 0
    /\ choice = Unbound
    /\ holdMyTuple = Unbound

\* main(), lines 282-303: the Search object, the sailor's location, the round
\* limit and the first calc_search_effectiveness(), up to the first input()
NewGame ==
    /\ pc = "main"
    /\ pc' = "choice"
    /\ p1' = InitP1 /\ p2' = InitP2 /\ p3' = InitP3
    /\ sailor_actual' \in SailorCells
    /\ area_actual' \in SailorAreas
    /\ search_num' = 0
    /\ search_limit' \in setHurricaneArrival
    /\ calc_search_effectiveness
    /\ UNCHANGED <<choice, holdMyTuple>>

\* main() is called from inside the running main() (chooseSeven, line 367,
\* line 372): the running game is never resumed, a new frame starts at line 280
CallMain ==
    /\ pc \in {"found", "exhausted", "restart"}
    /\ pc' = "main"
    /\ p1' = Unbound /\ p2' = Unbound /\ p3' = Unbound
    /\ sep1' = Unbound /\ sep2' = Unbound /\ sep3' = Unbound
    /\ sailor_actual' = Unbound
    /\ area_actual' = 0
    /\ search_num' = 0
    /\ search_limit' = 0
    /\ choice' = Unbound
    /\ holdMyTuple' = Unbound

\* choice == "0": exit()
chooseZero ==
    /\ pc = "choice"
    /\ choice' = "0"
    /\ pc' = "exited"
    /\ UNCHANGED <<p1, p2, p3, sep1, sep2, sep3, area_actual, sailor_actual,
                   search_num, search_limit, holdMyTuple>>

\* what every search choice leaves alone
SearchFrame ==
    UNCHANGED <<p1, p2, p3, area_actual, sailor_actual, search_num,
                search_limit>>

\* a chooseOne that counts a cell searched by both teams twice
chooseOne_adds_lengths ==
    /\ pc = "choice"
    /\ \E o1, o2 \in ShuffleOrders :
         LET r1 == conduct_search(1, o1, sep1)
             r2 == conduct_search(1, o2, sep1)
         IN  /\ sep1' = Rat(Len(r1[2]) + Len(r2[2]), GridSide * GridSide)
             /\ sep2' = Zero
             /\ sep3' = Zero
             /\ holdMyTuple' = <<r1[1], r1[2], r2[1], r2[2]>>
    /\ choice' = "1"
    /\ pc' = "searched"
    /\ SearchFrame

chooseOne ==
    /\ pc = "choice"
    /\ \E o1, o2 \in ShuffleOrders :
         LET r1 == conduct_search(1, o1, sep1)
             r2 == conduct_search(1, o2, sep1)
         IN  /\ sep1' = ObservedSep(r1[2], r2[2])
             /\ sep2' = Zero
             /\ sep3' = Zero
             /\ holdMyTuple' = <<r1[1], r1[2], r2[1], r2[2]>>
    /\ choice' = "1"
    /\ pc' = "searched"
    /\ SearchFrame

\* a chooseTwo whose second search is made with area 3's effectiveness
chooseTwo_second_uses_sep3 ==
    /\ pc = "choice"
    /\ \E o1, o2 \in ShuffleOrders :
         LET r1 == conduct_search(2, o1, sep2)
             r2 == conduct_search(2, o2, sep3)
         IN  /\ sep1' = Zero
             /\ sep2' = ObservedSep(r1[2], r2[2])
             /\ sep3' = Zero
             /\ holdMyTuple' = <<r1[1], r1[2], r2[1], r2[2]>>
    /\ choice' = "2"
    /\ pc' = "searched"
    /\ SearchFrame

chooseTwo ==
    /\ pc = "choice"
    /\ \E o1, o2 \in ShuffleOrders :
         LET r1 == conduct_search(2, o1, sep2)
             r2 == conduct_search(2, o2, sep2)
         IN  /\ sep1' = Zero
             /\ sep2' = ObservedSep(r1[2], r2[2])
             /\ sep3' = Zero
             /\ holdMyTuple' = <<r1[1], r1[2], r2[1], r2[2]>>
    /\ choice' = "2"
    /\ pc' = "searched"
    /\ SearchFrame

\* a chooseThree that revises the priors itself
chooseThree_revises_priors ==
    /\ pc = "choice"
    /\ \E o1, o2 \in ShuffleOrders :
         LET r1 == conduct_search(3, o1, sep3)
             r2 == conduct_search(3, o2, sep3)
             e3 == ObservedSep(r1[2], r2[2])
             denom == Denom(p1, p2, p3, Zero, Zero, e3)
         IN  /\ sep1' = Zero
             /\ sep2' = Zero
             /\ sep3' = e3
             /\ holdMyTuple' = <<r1[1], r1[2], r2[1], r2[2]>>
             /\ IF denom = Zero
                THEN UNCHANGED <<p1, p2, p3>>
                ELSE /\ p1' = Posterior(p1, Zero, denom)
                     /\ p2' = Posterior(p2, Zero, denom)
                     /\ p3' = Posterior(p3, e3, denom)
    /\ choice' = "3"
    /\ pc' = "searched"
    /\ UNCHANGED <<area_actual, sailor_actual, search_num, search_limit>>

chooseThree ==
    /\ pc = "choice"
    /\ \E o1, o2 \in ShuffleOrders :
         LET r1 == conduct_search(3, o1, sep3)
             r2 == conduct_search(3, o2, sep3)
         IN  /\ sep1' = Zero
             /\ sep2' = Zero
             /\ sep3' = ObservedSep(r1[2], r2[2])
             /\ holdMyTuple' = <<r1[1], r1[2], r2[1], r2[2]>>
    /\ choice' = "3"
    /\ pc' = "searched"
    /\ SearchFrame

chooseFour ==
    /\ pc = "choice"
    /\ \E o1, o2 \in ShuffleOrders :
         LET r1 == conduct_search(1, o1, sep1)
             r2 == conduct_search(2, o2, sep2)
         IN  holdMyTuple' = <<r1[1], r1[2], r2[1], r2[2]>>
    /\ sep3' = Zero
    /\ UNCHANGED <<sep1, sep2>>
    /\ choice' = "4"
    /\ pc' = "searched"
    /\ SearchFrame

\* a chooseFive that forgets to set sep2 to 0
chooseFive_keeps_sep2 ==
    /\ pc = "choice"
    /\ \E o1, o2 \in ShuffleOrders :
         LET r1 == conduct_search(1, o1, sep1)
             r2 == conduct_search(3, o2, sep3)
         IN  holdMyTuple' = <<r1[1], r1[2], r2[1], r2[2]>>
    /\ UNCHANGED <<sep1, sep2, sep3>>
    /\ choice' = "5"
    /\ pc' = "searched"
    /\ SearchFrame

chooseFive ==
    /\ pc = "choice"
    /\ \E o1, o2 \in ShuffleOrders :
         LET r1 == conduct_search(1, o1, sep1)
             r2 == conduct_search(3, o2, sep3)
         IN  holdMyTuple' = <<r1[1], r1[2], r2[1], r2[2]>>
    /\ sep2' = Zero
    /\ UNCHANGED <<sep1, sep3>>
    /\ choice' = "5"
    /\ pc' = "searched"
    /\ SearchFrame

chooseSix ==
    /\ pc = "choice"
    /\ \E o1, o2 \in ShuffleOrders :
         LET r1 == conduct_search(2, o1, sep2)
             r2 == conduct_search(3, o2, sep3)
         IN  holdMyTuple' = <<r1[1], r1[2], r2[1], r2[2]>>
    /\ sep1' = Zero
    /\ UNCHANGED <<sep2, sep3>>
    /\ choice' = "6"
    /\ pc' = "searched"
    /\ SearchFrame

\* a restart that keeps the Search object and only resets the round counter
chooseSeven_resets_counter_only ==
    /\ pc = "choice"
    /\ choice' = "7"
    /\ pc' = "choice"
    /\ search_num' = 0
    /\ calc_search_effectiveness
    /\ UNCHANGED <<p1, p2, p3, area_actual, sailor_actual, search_limit,
                   holdMyTuple>>

\* choice == "7": main() is called from inside the running main()
chooseSeven ==
    /\ pc = "choice"
    /\ choice' = "7"
    /\ pc' = "restart"
    /\ UNCHANGED <<p1, p2, p3, sep1, sep2, sep3, area_actual, sailor_actual,
                   search_num, search_limit, holdMyTuple>>

\* an invalid choice that uses up a round
chooseInvalid_counts_round ==
    /\ pc = "choice"
    /\ \E c \in InvalidInputs : c \notin ChoiceKeys /\ choice' = c
    /\ calc_search_effectiveness
    /\ pc' = "choice"
    /\ search_num' = search_num + 1
    /\ UNCHANGED <<p1, p2, p3, area_actual, sailor_actual, search_limit,
                   holdMyTuple>>

\* any other input: chooseInvalid(), continue, and the loop's next
\* calc_search_effectiveness() up to the next input()
chooseInvalid ==
    /\ pc = "choice"
    /\ \E c \in InvalidInputs : c \notin ChoiceKeys /\ choice' = c
    /\ calc_search_effectiveness
    /\ pc' = "choice"
    /\ UNCHANGED <<p1, p2, p3, area_actual, sailor_actual, search_num,
                   search_limit, holdMyTuple>>

\* an update that recomputes denom from the priors it has already replaced
revise_target_probs_recomputes_denom ==
    /\ pc = "searched"
    /\ LET d1 == Denom(p1, p2, p3, sep1, sep2, sep3)
           n1 == IF d1 = Zero THEN p1 ELSE Posterior(p1, sep1, d1)
           d2 == Denom(n1, p2, p3, sep1, sep2, sep3)
           n2 == IF d2 = Zero THEN p2 ELSE Posterior(p2, sep2, d2)
           d3 == Denom(n1, n2, p3, sep1, sep2, sep3)
       IN  IF d1 = Zero \/ d2 = Zero \/ d3 = Zero
           THEN /\ pc' = "ZeroDivisionError"
                /\ UNCHANGED <<p1, p2, p3>>
           ELSE /\ p1' = n1
                /\ p2' = n2
                /\ p3' = Posterior(p3, sep3, d3)
                /\ pc' = "revised"
    /\ UNCHANGED <<sep1, sep2, sep3, area_actual, sailor_actual, search_num,
                   search_limit, choice, holdMyTuple>>

\* app.revise_target_probs() of line 341; the division raises when denom is 0
revise_target_probs ==
    /\ pc = "searched"
    /\ LET denom == Denom(p1, p2, p3, sep1, sep2, sep3)
       IN  IF denom = Zero
           THEN /\ pc' = "ZeroDivisionError"
                /\ UNCHANGED <<p1, p2, p3>>
           ELSE /\ p1' = Posterior(p1, sep1, denom)
                /\ p2' = Posterior(p2, sep2, denom)
                /\ p3' = Posterior(p3, sep3, denom)
                /\ pc' = "revised"
    /\ UNCHANGED <<sep1, sep2, sep3, area_actual, sailor_actual, search_num,
                   search_limit, choice, holdMyTuple>>

\* a round loop that draws the effectiveness values once, before the loop
RoundNotFound_keeps_sep ==
    /\ pc = "revised"
    /\ BothNotFound(holdMyTuple)
    /\ search_num' = search_num + 1
    /\ search_num' # search_limit
    /\ pc' = "choice"
    /\ choice' = Unbound
    /\ holdMyTuple' = Unbound
    /\ UNCHANGED <<p1, p2, p3, sep1, sep2, sep3, area_actual, sailor_actual,
                   search_limit>>

\* a round loop that never compares search_num with search_limit
RoundNotFound_ignores_limit ==
    /\ pc = "revised"
    /\ BothNotFound(holdMyTuple)
    /\ search_num' = search_num + 1
    /\ calc_search_effectiveness
    /\ pc' = "choice"
    /\ choice' = Unbound
    /\ holdMyTuple' = Unbound
    /\ UNCHANGED <<p1, p2, p3, area_actual, sailor_actual, search_limit>>

\* lines 350-358: both results "Not Found", the hurricane has not arrived
RoundNotFound ==
    /\ pc = "revised"
    /\ BothNotFound(holdMyTuple)
    /\ search_num' = search_num + 1
    /\ search_num' # search_limit
    /\ calc_search_effectiveness
    /\ pc' = "choice"
    /\ choice' = Unbound
    /\ holdMyTuple' = Unbound
    /\ UNCHANGED <<p1, p2, p3, area_actual, sailor_actual, search_limit>>

\* lines 350-355: both results "Not Found" and search_num reaches the limit
RoundExhausted ==
    /\ pc = "revised"
    /\ BothNotFound(holdMyTuple)
    /\ search_num' = search_num + 1
    /\ search_num' = search_limit
    /\ pc' = "exhausted"
    /\ UNCHANGED <<p1, p2, p3, sep1, sep2, sep3, area_actual, sailor_actual,
                   search_limit, choice, holdMyTuple>>

\* a Found branch that counts the round as well
RoundFound_counts_round ==
    /\ pc = "revised"
    /\ ~BothNotFound(holdMyTuple)
    /\ pc' = "found"
    /\ search_num' = search_num + 1
    /\ UNCHANGED <<p1, p2, p3, sep1, sep2, sep3, area_actual, sailor_actual,
                   search_limit, choice, holdMyTuple>>

\* lines 360-367: a team found the sailor
RoundFound ==
    /\ pc = "revised"
    /\ ~BothNotFound(holdMyTuple)
    /\ pc' = "found"
    /\ UNCHANGED <<p1, p2, p3, sep1, sep2, sep3, area_actual, sailor_actual,
                   search_num, search_limit, choice, holdMyTuple>>

Next ==
    \/ NewGame
    \/ CallMain
    \/ chooseZero
    \/ chooseOne
    \/ chooseTwo
    \/ chooseThree
    \/ chooseFour
    \/ chooseFive
    \/ chooseSix
    \/ chooseSeven
    \/ chooseInvalid
    \/ revise_target_probs
    \/ RoundNotFound
    \/ RoundExhausted
    \/ RoundFound

Spec == Init /\ [][Next]_vars

----------------------------------------------------------------------------
(* revise_target_probs on its own: the update applied once to priors that  *)
(* sum to 1 and to effectiveness values as a choose helper leaves them     *)
(* (the area that was not searched has 0).                                 *)

PriorValues == {Zero, <<1, 5>>, <<3, 10>>, <<1, 2>>, One}

PriorTriples ==
    {t \in PriorValues \X PriorValues \X PriorValues :
        RAdd(RAdd(t[1], t[2]), t[3]) = One}

SepValues == {Zero, <<1, 5>>, <<3, 5>>, <<9, 10>>, One}

SepTriples ==
    {e \in SepValues \X SepValues \X SepValues :
        e[1] = Zero \/ e[2] = Zero \/ e[3] = Zero}

InitRevise ==
    /\ pc = "searched"
    /\ \E t \in PriorTriples : p1 = t[1] /\ p2 = t[2] /\ p3 = t[3]
    /\ \E e \in SepTriples : sep1 = e[1] /\ sep2 = e[2] /\ sep3 = e[3]
    /\ sailor_actual = <<0, 0>>
    /\ area_actual = 1
    /\ search_num = 0
    /\ search_limit = LimitLow
    /\ choice = Unbound
    /\ holdMyTuple = Unbound

NextRevise == revise_target_probs

SpecRevise == InitRevise /\ [][NextRevise]_vars

----------------------------------------------------------------------------
(* Search.conduct_search on its own: one call after another on an area of  *)
(* AreaShape cells, for every target, every searched area and every order  *)
(* shuffle can leave the list in.  The argument effectiveness_prob is held *)
(* in sep1, area_num is the area of the choice "1", "2" or "3", and        *)
(* holdMyTuple is the returned pair.                                       *)

\* columns of area_array in the calls checked on their own
AreaWidth == 2

\* area_array.shape[:2] in the calls checked on their own: (rows, columns)
AreaShape == <<2, AreaWidth>>

\* list(product(range(w), range(h))): x-major, cells <<x, y>>
product(w, h) == [i \in 1..(w * h) |-> <<(i - 1) \div h, (i - 1) % h>>]

\* coords before shuffle(coords), lines 183-187
AreaCoords == product(AreaShape[2], AreaShape[1])

\* every order shuffle(coords) can leave the list in
shuffle(coords) ==
    {o \in [1..Len(coords) -> SeqToSet(coords)] :
        \A i, j \in 1..Len(coords) : o[i] = o[j] => i = j}

ShuffledAreaCoords == shuffle(AreaCoords)

\* effectiveness values of [0, 1] the calls are made with
SearchEffValues == {Zero, <<1, 3>>, <<1, 2>>, <<3, 4>>, One}

\* the choices that send the first team to area 1, 2, 3
OneAreaChoices == {"1", "2", "3"}

\* the state in which conduct_search is entered, whatever the arguments
SearchCallFrame ==
    /\ p1 = InitP1 /\ p2 = InitP2 /\ p3 = InitP3
    /\ sep2 = Zero /\ sep3 = Zero
    /\ search_num = 0
    /\ search_limit = LimitLow
    /\ holdMyTuple = Unbound

InitSearch ==
    /\ pc = "conduct_search"
    /\ sep1 \in SearchEffValues
    /\ choice \in OneAreaChoices
    /\ area_actual \in SailorAreas
    /\ sailor_actual \in SeqToSet(AreaCoords)
    /\ SearchCallFrame

\* conduct_search(area_num, area_array, effectiveness_prob) returns
SearchReturns ==
    /\ pc = "conduct_search"
    /\ \E order \in ShuffledAreaCoords :
         holdMyTuple' = conduct_search(TeamAreas(choice)[1], order, sep1)
    /\ pc' = "returned"
    /\ UNCHANGED <<p1, p2, p3, sep1, sep2, sep3, area_actual, sailor_actual,
                   search_num, search_limit, choice>>

\* the orders the model draws for a call that follows another call
NextCallOrders == {AreaCoords, Reverse(AreaCoords)}

\* the next call on the same area, with another effectiveness_prob
SearchAgain ==
    /\ pc = "returned"
    /\ sep1' \in SearchEffValues
    /\ \E order \in NextCallOrders :
         holdMyTuple' = conduct_search(TeamAreas(choice)[1], order, sep1')
    /\ pc' = "returned"
    /\ UNCHANGED <<p1, p2, p3, sep2, sep3, area_actual, sailor_actual,
                   search_num, search_limit, choice>>

NextSearch == SearchReturns \/ SearchAgain

SpecSearch == InitSearch /\ [][NextSearch]_vars

----------------------------------------------------------------------------
(* The set up of a game when the three literals of Search.__init__ (lines  *)
(* 91-93) are configured otherwise: __init__ assigns them and tests        *)
(* nothing, and main() goes on to the first input().                       *)

\* values for the literals of lines 91-93: the shipped ones and two that do
\* not sum to 1
ConfiguredPriors ==
    {<<InitP1, InitP2, InitP3>>,
     <<(<<1, 5>>), (<<1, 2>>), (<<1, 5>>)>>,
     <<(<<1, 2>>), (<<1, 2>>), (<<1, 2>>)>>}

\* main(), lines 282-303, with the priors __init__ was configured with
NewGameConfigured ==
    /\ pc = "main"
    /\ pc' = "choice"
    /\ \E t \in ConfiguredPriors : p1' = t[1] /\ p2' = t[2] /\ p3' = t[3]
    /\ sailor_actual' \in SailorCells
    /\ area_actual' \in SailorAreas
    /\ search_num' = 0
    /\ search_limit' \in setHurricaneArrival
    /\ calc_search_effectiveness
    /\ UNCHANGED <<choice, holdMyTuple>>

NextConfigured == NewGameConfigured

SpecConfigured == Init /\ [][NextConfigured]_vars

----------------------------------------------------------------------------
(* The claims.                                                             *)

\* C1: in every state of a session (after construction, after every
\* revise_target_probs) the three priors sum to exactly 1.
C1_PriorsSumToOne ==
    pc # "main" => RAdd(RAdd(p1, p2), p3) = One

\* the third update of a session has run
C1_Witness ==
    /\ pc = "revised"
    /\ search_num = 2
    /\ <<p1, p2, p3>> # <<InitP1, InitP2, InitP3>>

\* C2: one call of revise_target_probs replaces each prior p_i by
\* p_i * (1 - e_i) / denom with denom and every numerator taken from the
\* priors before the call; priors (0.2, 0.5, 0.3) with e = (0, 0.6, 0)
\* become (2/7, 2/7, 3/7).
C2_PosteriorFromPreCallPriors ==
    [][(pc = "searched" /\ pc' = "revised") =>
         LET m1 == RMul(p1, RSub(One, sep1))
             m2 == RMul(p2, RSub(One, sep2))
             m3 == RMul(p3, RSub(One, sep3))
             d == RAdd(m1, RAdd(m2, m3))
         IN  /\ RMul(p1', d) = m1
             /\ RMul(p2', d) = m2
             /\ RMul(p3', d) = m3
             /\ (/\ <<p1, p2, p3>> = <<InitP1, InitP2, InitP3>>
                 /\ <<sep1, sep2, sep3>> = <<Zero, <<3, 5>>, Zero>>)
                => <<p1', p2', p3'>> = <<(<<2, 7>>), (<<2, 7>>), (<<3, 7>>)>>]_vars

\* the update has run on priors (0.2, 0.5, 0.3) with e = (0, 0.6, 0)
C2_Witness ==
    /\ pc = "revised"
    /\ <<sep1, sep2, sep3>> = <<Zero, <<3, 5>>, Zero>>
    /\ <<p1, p2, p3>> = <<(<<2, 7>>), (<<2, 7>>), (<<3, 7>>)>>

\* C3: the belief update is executed only after a round whose two results
\* are both "Not Found": once revise_target_probs has run in a round, no
\* team of that round has found the sailor.
C3_UpdateOnlyAfterNotFound ==
    pc = "revised" =>
        holdMyTuple[1] = "Not Found" /\ holdMyTuple[3] = "Not Found"

\* C4: the belief update is never run with denom = 0.
C4_DenomNeverZero ==
    /\ pc = "searched" => Denom(p1, p2, p3, sep1, sep2, sep3) # Zero
    /\ pc # "ZeroDivisionError"

\* uniform(0.2, 0.9) has drawn e
InBand(e) == RLeq(SepLow, e) /\ RLeq(e, SepHigh)

\* a step of the loop from one input() straight to the next: a rejected input
InvalidChoiceStep == pc = "choice" /\ pc' = "choice"

\* C5 as stated: an invalid choice leaves the round counter, the priors, the
\* effectiveness values and the target as they were when it was read.
C5_InvalidChoiceChangesNothing ==
    [][InvalidChoiceStep =>
         UNCHANGED <<search_num, p1, p2, p3, sep1, sep2, sep3, area_actual,
                     sailor_actual>>]_vars

\* C5 amended: an invalid choice leaves the round counter, the priors, the
\* target and the round limit as they were; the three effectiveness values
\* are drawn again, each in [0.2, 0.9], before the next choice is read.
C5_InvalidChoiceKeepsAllButSep ==
    [][InvalidChoiceStep =>
         /\ UNCHANGED <<search_num, p1, p2, p3, area_actual, sailor_actual,
                        search_limit>>
         /\ InBand(sep1') /\ InBand(sep2') /\ InBand(sep3')]_vars

\* an input was rejected in the second round and the next choice is awaited
C5_Witness ==
    /\ pc = "choice"
    /\ choice \in InvalidInputs
    /\ search_num = 1

\* C6: within a session search_num goes up by exactly 1 on a round whose two
\* results are "Not Found", is unchanged by a rejected input and by a round
\* in which a team found the sailor, changes at no other step and never
\* goes down.
C6_RoundCounter ==
    [][/\ (pc = "revised" /\ holdMyTuple[1] = "Not Found"
                          /\ holdMyTuple[3] = "Not Found")
          => search_num' = search_num + 1
       /\ (pc = "revised" /\ ~(holdMyTuple[1] = "Not Found"
                                /\ holdMyTuple[3] = "Not Found"))
          => search_num' = search_num
       /\ InvalidChoiceStep => search_num' = search_num
       /\ (pc # "main" /\ pc' # "main")
          => /\ search_num' >= search_num
             /\ search_num' # search_num => pc = "revised"]_vars

\* a team found the sailor in the third round: two counted rounds before it
C6_Witness ==
    /\ pc = "found"
    /\ search_num = 2

\* the search rounds a session has started so far
RoundsPerformed ==
    search_num + (IF pc \in {"searched", "revised", "found",
                              "ZeroDivisionError"} THEN 1 ELSE 0)

\* C7: a session performs at most search_limit search rounds, and a session
\* that has stopped reading choices has ended Found, Exhausted, Quit or
\* Restart.
C7_SessionEndsInAnOutcome ==
    pc # "main" =>
        /\ RoundsPerformed <= search_limit
        /\ pc \in {"choice", "searched", "revised",
                    "found", "exhausted", "exited", "restart"}

\* C8: the round limit is an integer of 3..8 that does not change during the
\* session; the session is exhausted exactly when search_num, after a round
\* with two "Not Found" results, equals the limit; search_num never exceeds
\* the limit and is below it while the session runs.
C8_RoundLimit ==
    /\ [](pc # "main" =>
            /\ search_limit \in 3..8
            /\ search_num <= search_limit
            /\ (pc = "exhausted") <=> (search_num = search_limit))
    /\ [][(pc # "main" /\ pc' # "main") => search_limit' = search_limit]_vars
    /\ [][(pc # "exhausted" /\ pc' = "exhausted") =>
             /\ pc = "revised"
             /\ holdMyTuple[1] = "Not Found" /\ holdMyTuple[3] = "Not Found"
             /\ search_num' = search_num + 1]_vars

\* the hurricane arrives: search_num has reached the limit
C8_Witness ==
    /\ pc = "exhausted"
    /\ search_num = search_limit
    /\ search_limit = 3

\* C9: a team's result is Found exactly when the area it searched is the
\* sailor's actual area and the sailor's cell is among the cells it
\* searched; a search of any other area is "Not Found" whatever it covered.
C9_FoundIffActualAreaAndCell ==
    holdMyTuple # Unbound =>
        \A i \in {1, 2} :
            LET area_num == TeamAreas(choice)[i]
                result == holdMyTuple[2 * i - 1]
                coords == holdMyTuple[2 * i]
            IN  /\ (result # "Not Found") <=>
                       (/\ area_num = area_actual
                        /\ sailor_actual \in SeqToSet(coords))
                /\ result # "Not Found" => result = FoundIn(area_num)

\* the first team covered the sailor's cell in the wrong area, the second
\* team found the sailor
C9_Witness ==
    /\ pc = "searched"
    /\ choice = "4"
    /\ area_actual = 2
    /\ sailor_actual \in SeqToSet(holdMyTuple[2])
    /\ holdMyTuple[1] = "Not Found"
    /\ holdMyTuple[3] = "Found in Area 2"

C11_SearchedCellCount ==
    /\ [](pc = "returned" =>
            LET coords == holdMyTuple[2]
                k == Len(coords)
                N == AreaShape[1] * AreaShape[2]
            IN  /\ k * sep1[2] <= N * sep1[1]
                /\ N * sep1[1] < (k + 1) * sep1[2]
                /\ Cardinality({coords[i] : i \in 1..k}) = k
                /\ \A i \in 1..k :
                     /\ coords[i][1] \in 0..(AreaShape[2] - 1)
                     /\ coords[i][2] \in 0..(AreaShape[1] - 1)
                /\ sep1 = One => k = N
                /\ sep1 = Zero => k = 0)
    /\ [][(pc = "returned" /\ pc' = "returned" /\ RLeq(sep1, sep1'))
            => Len(holdMyTuple[2]) <= Len(holdMyTuple'[2])]_vars

\* a call with e = 3/4 has returned three cells of the four, the last of
\* them the cell (1, 1)
C11_Witness ==
    /\ pc = "returned"
    /\ sep1 = <<3, 4>>
    /\ Len(holdMyTuple[2]) = 3
    /\ holdMyTuple[2][3] = <<AreaShape[2] - 1, AreaShape[1] - 1>>

\* C12: whatever the target cell and whatever order shuffle leaves the list
\* in, a search of the sailor's actual area with effectiveness 1.0 returns
\* Found in that area, never "Not Found".
C12_FullCoverageFinds ==
    (/\ pc = "returned"
     /\ sep1 = One
     /\ TeamAreas(choice)[1] = area_actual)
    => /\ holdMyTuple[1] # "Not Found"
       /\ holdMyTuple[1] = FoundIn(area_actual)

\* area 3 was searched with effectiveness 1.0, the shuffle had put the
\* sailor's cell last, and the sailor was found
C12_Witness ==
    /\ pc = "returned"
    /\ sep1 = One
    /\ choice = "3"
    /\ area_actual = 3
    /\ sailor_actual = <<1, 1>>
    /\ holdMyTuple[2][Len(holdMyTuple[2])] = sailor_actual
    /\ holdMyTuple[1] = "Found in Area 3"

\* C13: revise_target_probs run with e1 = e2 = e3 = 0 returns normally and
\* leaves p1, p2 and p3 exactly as they were, for every priors that sum to 1.
C13_NothingSearchedIsNoOp ==
    [][(pc = "searched" /\ <<sep1, sep2, sep3>> = <<Zero, Zero, Zero>>)
         => /\ pc' = "revised"
            /\ <<p1', p2', p3'>> = <<p1, p2, p3>>]_vars

\* the update has run with no area searched on priors (0.5, 0.2, 0.3)
C13_Witness ==
    /\ pc = "revised"
    /\ <<sep1, sep2, sep3>> = <<Zero, Zero, Zero>>
    /\ <<p1, p2, p3>> = <<(<<1, 2>>), (<<1, 5>>), (<<3, 10>>)>>

\* C14: when revise_target_probs runs with e_i = 1.0 for an area i and denom
\* is not 0, the prior of that area is exactly 0 afterwards, whatever it was.
C14_FullySearchedAreaEliminated ==
    [][(pc = "searched" /\ pc' = "revised")
         => /\ sep1 = One => p1' = Zero
            /\ sep2 = One => p2' = Zero
            /\ sep3 = One => p3' = Zero]_vars

\* area 2 held half of the belief, was searched with e = 1.0 and is
\* eliminated; the belief went to the two other areas
C14_Witness ==
    /\ pc = "revised"
    /\ <<sep1, sep2, sep3>> = <<Zero, One, Zero>>
    /\ <<p1, p2, p3>> = <<(<<2, 5>>), Zero, (<<3, 5>>)>>

\* C15: once sailor_final_location has run, area_actual is 1, 2 or 3 and the
\* sailor's cell is inside the area (0 <= x < width, 0 <= y < height), and no
\* step of the session (a choice, a rejected input, a search, a belief
\* update) changes area_actual or the cell.
C15_TargetSetOnce ==
    /\ [](pc # "main" =>
            /\ area_actual \in {1, 2, 3}
            /\ sailor_actual[1] \in 0..(GridSide - 1)
            /\ sailor_actual[2] \in 0..(GridSide - 1))
    /\ [][(pc # "main" /\ pc' # "main")
            => /\ area_actual' = area_actual
               /\ sailor_actual' = sailor_actual]_vars

\* the third round of a session whose sailor is in area 3 at the far corner,
\* after an input was rejected
C15_Witness ==
    /\ pc = "choice"
    /\ search_num = 2
    /\ choice \in InvalidInputs
    /\ area_actual = 3
    /\ sailor_actual = <<GridSide - 1, GridSide - 1>>

\* C16: choosing Restart in any round, whatever the priors and the round
\* counter, leaves the loop for a new main(): nothing of the old session is
\* left, the old session is not searched or revised again, and the session
\* the new main() sets up has priors (0.2, 0.5, 0.3), round counter 0 and a
\* target and a round limit drawn by sailor_final_location and
\* setHurricaneArrival.
C16_RestartStartsNewSession ==
    /\ [][(pc = "choice" /\ choice' = "7") => pc' = "restart"]_vars
    /\ [][pc = "restart" =>
            /\ pc' = "main"
            /\ <<p1', p2', p3'>> = <<Unbound, Unbound, Unbound>>
            /\ sailor_actual' = Unbound
            /\ area_actual' = 0
            /\ search_num' = 0
            /\ choice' = Unbound /\ holdMyTuple' = Unbound]_vars
    /\ [][pc = "main" =>
            /\ pc' = "choice"
            /\ <<p1', p2', p3'>> = <<(<<1, 5>>), (<<1, 2>>), (<<3, 10>>)>>
            /\ search_num' = 0
            /\ area_actual' \in 1..3
            /\ sailor_actual' \in (0..(GridSide - 1)) \X (0..(GridSide - 1))
            /\ search_limit' \in 3..8
            /\ holdMyTuple' = Unbound]_vars

\* Restart is chosen in the third round, after two belief updates
C16_Witness ==
    /\ pc = "restart"
    /\ choice = "7"
    /\ search_num = 2
    /\ <<p1, p2, p3>> # <<InitP1, InitP2, InitP3>>

SepOf(area_num) ==
    CASE area_num = 1 -> sep1
      [] area_num = 2 -> sep2
      [] area_num = 3 -> sep3

\* C18: when the belief update runs after a valid search choice, every area
\* that is not part of the choice has effectiveness exactly 0 (choices 1-3:
\* the two other areas; choices 4, 5, 6: area 3, 2, 1), so the areas with
\* nonzero effectiveness are among the chosen ones.
C18_UnchosenAreasHaveZeroSep ==
    pc \in {"searched", "revised"} =>
        /\ \A a \in 1..3 :
             (a # TeamAreas(choice)[1] /\ a # TeamAreas(choice)[2])
                => SepOf(a) = Zero
        /\ choice = "4" => sep3 = Zero
        /\ choice = "5" => sep2 = Zero
        /\ choice = "6" => sep1 = Zero
        /\ choice = "1" => (sep2 = Zero /\ sep3 = Zero)
        /\ choice = "2" => (sep1 = Zero /\ sep3 = Zero)
        /\ choice = "3" => (sep1 = Zero /\ sep2 = Zero)

\* areas 1 and 3 were searched in the second round; the update is about to
\* run with sep2 = 0 and the two other values nonzero
C18_Witness ==
    /\ pc = "searched"
    /\ search_num = 1
    /\ choice = "5"
    /\ sep2 = Zero
    /\ sep1 # Zero /\ sep3 # Zero

\* C19: after a 'search one area twice' choice the effectiveness the update
\* uses for that area is the number of distinct cells in the two teams'
\* searched lists divided by the area's cell count, whatever was sampled;
\* after a 'search two areas' choice each chosen area's effectiveness is the
\* value sampled at the start of the round.
C19_ObservedOrSampledSep ==
    [][(pc = "choice" /\ pc' = "searched") =>
         LET a1 == TeamAreas(choice')[1]
             a2 == TeamAreas(choice')[2]
             union == {holdMyTuple'[2][i] : i \in 1..Len(holdMyTuple'[2])}
                      \cup
                      {holdMyTuple'[4][i] : i \in 1..Len(holdMyTuple'[4])}
             used == CASE a1 = 1 -> sep1' [] a1 = 2 -> sep2' [] a1 = 3 -> sep3'
         IN  /\ a1 = a2 =>
                  used[1] * (GridSide * GridSide)
                      = Cardinality(union) * used[2]
             /\ a1 # a2 =>
                  /\ (1 \in {a1, a2} => sep1' = sep1)
                  /\ (2 \in {a1, a2} => sep2' = sep2)
                  /\ (3 \in {a1, a2} => sep3' = sep3)]_vars

\* area 1 was searched twice with sampled effectiveness 1/3: each team
\* searched one cell, the two cells differ, and the update is about to run
\* with their union over the area, not with 1/3
C19_Witness ==
    /\ pc = "searched"
    /\ choice = "1"
    /\ Len(holdMyTuple[2]) = 1
    /\ Len(holdMyTuple[4]) = 1
    /\ holdMyTuple[2] # holdMyTuple[4]
    /\ sep1 = Rat(2, GridSide * GridSide)

\* C20: the priors of a session are written only by revise_target_probs: a
\* step of calc_search_effectiveness, of conduct_search, of a choose helper
\* or of the invalid-choice path leaves p1, p2 and p3 as they were.
C20_PriorsWrittenOnlyByRevise ==
    [][(pc \in {"choice", "revised"} /\ pc' # "main")
         => <<p1', p2', p3'>> = <<p1, p2, p3>>]_vars

\* priors revised in the first round went unchanged through the second
\* round's effectiveness draw and its search of area 3
C20_Witness ==
    /\ pc = "searched"
    /\ search_num = 1
    /\ choice = "3"
    /\ <<p1, p2, p3>> # <<InitP1, InitP2, InitP3>>

\* C21: whenever a choice is read (in the first round, in every later round
\* and after every rejected input) each of the three effectiveness values is
\* a value drawn by uniform(0.2, 0.9): it lies in [0.2, 0.9], and neither a 0
\* forced nor a union coverage observed in the round before is left.
C21_SepInBandAtChoice ==
    pc = "choice" =>
        /\ RLeq(<<1, 5>>, sep1) /\ RLeq(sep1, <<9, 10>>)
        /\ RLeq(<<1, 5>>, sep2) /\ RLeq(sep2, <<9, 10>>)
        /\ RLeq(<<1, 5>>, sep3) /\ RLeq(sep3, <<9, 10>>)
        /\ {sep1, sep2, sep3} \subseteq EffValues

\* the third round's choice is read, two rounds that forced values to 0
\* before it
C21_Witness ==
    /\ pc = "choice"
    /\ search_num = 2
    /\ choice = Unbound
    /\ sep1 # sep2

\* self.p1, self.p2, self.p3 as a function of the area number
PriorOf(area_num) ==
    CASE area_num = 1 -> p1
      [] area_num = 2 -> p2
      [] area_num = 3 -> p3

\* C22: whenever a choice is read, the prior of the area that holds the
\* sailor is strictly greater than 0: the rounds of a session that goes on
\* never eliminate the true area.
C22_TrueAreaNeverEliminated ==
    pc = "choice" =>
        /\ PriorOf(area_actual)[1] > 0
        /\ PriorOf(area_actual)[2] > 0

\* two rounds searched the two other areas completely: the third round
\* starts with all of the belief on the sailor's area
C22_Witness ==
    /\ pc = "choice"
    /\ search_num = 2
    /\ area_actual = 2
    /\ <<p1, p2, p3>> = <<Zero, One, Zero>>

\* C23: for priors that sum to 1 and effectiveness values of [0, 1] with a
\* nonzero denom, a belief update never lowers the prior of an area that was
\* not searched (e_i = 0 implies p_i' >= p_i), and when only one area was
\* searched (the round searched it twice) that area's prior never rises.
C23_UpdateDirection ==
    [][(pc = "searched" /\ pc' = "revised") =>
         /\ sep1 = Zero => p1[1] * p1'[2] <= p1'[1] * p1[2]
         /\ sep2 = Zero => p2[1] * p2'[2] <= p2'[1] * p2[2]
         /\ sep3 = Zero => p3[1] * p3'[2] <= p3'[1] * p3[2]
         /\ (sep2 = Zero /\ sep3 = Zero) => p1'[1] * p1[2] <= p1[1] * p1'[2]
         /\ (sep1 = Zero /\ sep3 = Zero) => p2'[1] * p2[2] <= p2[1] * p2'[2]
         /\ (sep1 = Zero /\ sep2 = Zero) => p3'[1] * p3[2] <= p3[1] * p3'[2]
      ]_vars

\* only area 1 was searched, with e = 0.9, on priors (0.5, 0.2, 0.3): its
\* prior fell to 1/11 and the two other priors rose to 4/11 and 6/11
C23_Witness ==
    /\ pc = "revised"
    /\ <<sep1, sep2, sep3>> = <<(<<9, 10>>), Zero, Zero>>
    /\ <<p1, p2, p3>> = <<(<<1, 11>>), (<<4, 11>>), (<<6, 11>>)>>

\* C24: in a 'search one area twice' round both searches are made with the
\* effectiveness e sampled for the area (it is overwritten only after the
\* second search), each team covers k = floor(N * e) of the area's N cells,
\* and the observed effectiveness written back satisfies
\* k / N <= observed <= min(1, 2k / N), so it lies in [0, 1].
C24_ObservedSepBounds ==
    [][(pc = "choice" /\ pc' = "searched" /\ choice' \in {"1", "2", "3"}) =>
         LET a == TeamAreas(choice')[1]
             e == SepOf(a)
             observed == CASE a = 1 -> sep1' [] a = 2 -> sep2' [] a = 3 -> sep3'
             N == GridSide * GridSide
             k == Len(holdMyTuple'[2])
         IN  /\ Len(holdMyTuple'[4]) = k
             /\ k * e[2] <= N * e[1]
             /\ N * e[1] < (k + 1) * e[2]
             /\ k * observed[2] <= observed[1] * N
             /\ observed[1] * N <= 2 * k * observed[2]
             /\ observed[1] <= observed[2]
             /\ 0 <= observed[1] /\ 0 < observed[2]]_vars

\* area 3 was searched twice with sampled e = 2/3 and the two teams' lists
\* together cover the area: the observed value is min(1, 2k / N) = 1
C24_Witness ==
    /\ pc = "searched"
    /\ choice = "3"
    /\ Len(holdMyTuple[2]) = Floor(RMul(<<GridSide * GridSide, 1>>, <<2, 3>>))
    /\ Len(holdMyTuple[4]) = Len(holdMyTuple[2])
    /\ holdMyTuple[2] # holdMyTuple[4]
    /\ sep3 = One

====
